---- MODULE Spec2Model ----
(***************************************************************************)
(* The truss importer of Truss_stem.py (the module Truss_App.py imports):  *)
(* TrussController.ImportFromFile parses the lines of a truss file into a  *)
(* TrussModel, calcLinkVals derives every link's length and angle, and     *)
(* TrussView.displayReport / buildScene show the result.                   *)
(*                                                                         *)
(* Text is a sequence of one-character strings, so that strip, split,      *)
(* lower, startswith and float are computed on the characters.  None is    *)
(* the empty tuple <<>> and a value v that is set is the 1-tuple <<v>>.    *)
(* Coordinates are whole numbers, a length is kept as the radicand of its   *)
(* square root and an angle as the half plane and the cosine of            *)
(* math.acos's argument.  This is exact for small coordinates; the one     *)
(* rounding of IEEE doubles that is modelled is the loss of y**2 beside    *)
(* x**2 in mag() for |x| >= 2^27 * (|y| + 1).                              *)
(***************************************************************************)
EXTENDS Integers, Sequences, FiniteSets, TLC

VARIABLES models, truss, view, pc, data, i, err, imports, scenario

vars == <<models, truss, view, pc, data, i, err, imports, scenario>>

\* ------------------------------------------------------------------ bounds
\* longest body (the records after the header block) of an imported file
MaxLines == 4
\* number of ImportFromFile calls in the scenarios that repeat imports
MaxImports == 2

\* ------------------------------------------------------------ str methods
None == <<>>
Some(v) == <<v>>

MinOf(S) == CHOOSE x \in S : \A y \in S : x <= y
MaxOf(S) == CHOOSE x \in S : \A y \in S : x >= y

Whitespace == {" ", "\t", "\n"}

\* str.lstrip(chars) and str.rstrip(chars)
RECURSIVE lstrip(_, _)
lstrip(s, chars) ==
    IF s # <<>> /\ s[1] \in chars THEN lstrip(Tail(s), chars) ELSE s
RECURSIVE rstrip(_, _)
rstrip(s, chars) ==
    IF s # <<>> /\ s[Len(s)] \in chars THEN rstrip(SubSeq(s, 1, Len(s) - 1), chars)
    ELSE s

\* str.strip(chars): drops the leading and trailing characters that are in chars
strip(s, chars) == rstrip(lstrip(s, chars), chars)

\* str.find(c, k): the first position from k on that holds c, 0 when none does
RECURSIVE find(_, _, _)
find(s, c, k) ==
    IF k > Len(s) THEN 0 ELSE IF s[k] = c THEN k ELSE find(s, c, k + 1)

\* str.split(','): the pieces between the commas, empty pieces included
RECURSIVE split(_)
split(s) ==
    LET comma == find(s, ",", 1)
    IN  IF comma = 0 THEN <<s>>
        ELSE <<SubSeq(s, 1, comma - 1)>> \o split(SubSeq(s, comma + 1, Len(s)))

UpperChars == <<"A","B","C","D","E","F","G","H","I","J","K","L","M",
                "N","O","P","Q","R","S","T","U","V","W","X","Y","Z">>
LowerChars == <<"a","b","c","d","e","f","g","h","i","j","k","l","m",
                "n","o","p","q","r","s","t","u","v","w","x","y","z">>
LowerOf ==
    [c \in {UpperChars[u] : u \in 1..Len(UpperChars)} |->
        LowerChars[CHOOSE u \in 1..Len(UpperChars) : UpperChars[u] = c]]

\* str.lower()
lower(s) ==
    [k \in 1..Len(s) |-> IF s[k] \in DOMAIN LowerOf THEN LowerOf[s[k]] ELSE s[k]]

\* str.startswith(c) for a one-character prefix
startswith(s, c) == Len(s) > 0 /\ s[1] = c

Digits == <<"0","1","2","3","4","5","6","7","8","9">>
DigitOf ==
    [c \in {Digits[d] : d \in 1..Len(Digits)} |->
        (CHOOSE d \in 1..Len(Digits) : Digits[d] = c) - 1]
IsDigit(c) == c \in DOMAIN DigitOf
DigitVal(c) == DigitOf[c]

RECURSIVE natOf(_)
natOf(s) ==
    IF s = <<>> THEN 0
    ELSE natOf(SubSeq(s, 1, Len(s) - 1)) * 10 + DigitVal(s[Len(s)])

\* float(s) on the literals the files of this model hold: an optional sign and
\* decimal digits.  Any other text is what float() rejects with ValueError
\* (the files hold no decimal point, exponent, inf or nan).
unsigned(s) == IF Len(s) > 0 /\ s[1] \in {"+", "-"} THEN Tail(s) ELSE s
isFloat(s) ==
    /\ unsigned(s) # <<>>
    /\ \A k \in 1..Len(unsigned(s)) : IsDigit(unsigned(s)[k])
float(s) ==
    IF Len(s) > 0 /\ s[1] = "-" THEN 0 - natOf(unsigned(s)) ELSE natOf(unsigned(s))

\* ------------------------------------------------------------- Position
Position(x, y) == [x |-> x, y |-> y, z |-> 0]

\* Position.__sub__
PositionSub(a, b) == [x |-> a.x - b.x, y |-> a.y - b.y, z |-> a.z - b.z]

Abs(v) == IF v < 0 THEN 0 - v ELSE v

\* The coordinates are floats of 53 significant bits.  The files of this model
\* hold whole numbers: either all below 2^15, where squares, sums and
\* differences are exact, or an x of 2^28 beside a y of at most 1.  For a vector
\* in the plane with |x| >= 2^27 * (|y| + 1), y**2 is less than half a unit in
\* the last place of x**2, so x**2+y**2 rounds to x**2, mag() is |x| and x/l is
\* 1.0 or -1.0.
FloatAbsorb == 134217728
Absorbs(p) == p.z = 0 /\ Abs(p.x) \div FloatAbsorb > Abs(p.y)

\* Position.mag: (x**2+y**2+z**2)**0.5, kept as the radicand; as the number
\* itself where y**2 is lost to rounding
mag(p) ==
    IF Absorbs(p) THEN [abs |-> Abs(p.x)]
    ELSE [sqrtOf |-> p.x * p.x + p.y * p.y + p.z * p.z]
\* l <= 0.0
NotPositive(l) == "sqrtOf" \in DOMAIN l /\ l.sqrtOf <= 0
\* a > b for two magnitudes
Longer(a, b) ==
    IF "abs" \in DOMAIN a
    THEN "sqrtOf" \in DOMAIN b \/ a.abs > b.abs
    ELSE "sqrtOf" \in DOMAIN b /\ a.sqrtOf > b.sqrtOf

RECURSIVE GCD(_, _)
GCD(a, b) == IF b = 0 THEN a ELSE GCD(b, a % b)

\* the exact value x / sqrt(n), n > 0, as sign and reduced square p/q
Ratio(x, n) ==
    LET g == GCD(x * x, n)
    IN  [sgn |-> IF x > 0 THEN 1 ELSE IF x < 0 THEN 0 - 1 ELSE 0,
         p |-> (x * x) \div g, q |-> n \div g]

\* self.x/l for l = mag(): exact, or 1.0 or -1.0 where l is |x|
Quotient(x, l) ==
    IF "abs" \in DOMAIN l
    THEN [sgn |-> IF x > 0 THEN 1 ELSE 0 - 1, p |-> 1, q |-> 1]
    ELSE Ratio(x, l.sqrtOf)

\* math.acos(c) and 2.0*math.pi - math.acos(c)
Acos(c) == [turn |-> "acos", cos |-> c]
TwoPiMinusAcos(c) == [turn |-> "2pi-acos", cos |-> c]
\* the number 0, which is math.acos(1)
Zero == Acos([sgn |-> 1, p |-> 1, q |-> 1])

\* the angle as it would be without the branch for y < 0
getAngleRadUpperHalf(p) ==
    LET l == mag(p)
    IN  IF NotPositive(l) THEN Zero ELSE Acos(Quotient(p.x, l))

\* Position.getAngleRad
getAngleRad(p) ==
    LET l == mag(p)
    IN  IF NotPositive(l) THEN Zero
        ELSE IF p.y >= 0 THEN Acos(Quotient(p.x, l))
        ELSE TwoPiMinusAcos(Quotient(p.x, l))

\* ------------------------------------------------- Material, Node, Link
Material(uts, ys, modulus) ==
    [uts |-> uts, ys |-> ys, E |-> modulus, staticFactor |-> None]

Node(name, position) == [name |-> name, position |-> position]

\* the constructor as it would be if it kept a length of 0 instead of None
LinkWithLength(name, node1, node2) ==
    [name |-> name, node1_Name |-> node1, node2_Name |-> node2,
     length |-> Some([sqrtOf |-> 0]), angleRad |-> None]

\* Link.__init__: length and angleRad start as None whatever is passed
Link(name, node1, node2) ==
    [name |-> name, node1_Name |-> node1, node2_Name |-> node2,
     length |-> None, angleRad |-> None]

\* the comparison as it would be if the name counted as well
Link_eqWithName(self, other) ==
    IF self.name # other.name THEN FALSE
    ELSE IF self.node1_Name # other.node1_Name THEN FALSE
    ELSE IF self.node2_Name # other.node2_Name THEN FALSE
    ELSE IF self.length # other.length THEN FALSE
    ELSE IF self.angleRad # other.angleRad THEN FALSE
    ELSE TRUE

\* Link.__eq__
Link_eq(self, other) ==
    IF self.node1_Name # other.node1_Name THEN FALSE
    ELSE IF self.node2_Name # other.node2_Name THEN FALSE
    ELSE IF self.length # other.length THEN FALSE
    ELSE IF self.angleRad # other.angleRad THEN FALSE
    ELSE TRUE

\* TrussModel.__init__
TrussModel ==
    [title |-> None, links |-> <<>>, nodes |-> <<>>,
     material |-> Material(None, None, None)]

\* --------------------------------------------- TrussController helpers
hasNode(m, name) == \E k \in 1..Len(m.nodes) : m.nodes[k].name = name

\* getNode as it would be if the loop kept the last match instead of returning
\* the first
getNodeLastMatch(m, name) ==
    LET hits == {k \in 1..Len(m.nodes) : m.nodes[k].name = name}
    IN  IF hits = {} THEN None ELSE Some(m.nodes[MaxOf(hits)])

\* the first node of the list with that name, None when there is none
getNode(m, name) ==
    LET hits == {k \in 1..Len(m.nodes) : m.nodes[k].name = name}
    IN  IF hits = {} THEN None ELSE Some(m.nodes[MinOf(hits)])

addNode(m, node) == [m EXCEPT !.nodes = Append(@, node)]

\* the append as it would be with a guard on the name, as addNode is described
addLinkIfNew(m, link) ==
    IF \E k \in 1..Len(m.links) : m.links[k].name = link.name THEN m
    ELSE [m EXCEPT !.links = Append(@, link)]

addLink(m, link) == [m EXCEPT !.links = Append(@, link)]

\* the vector as it would be with the operands exchanged
linkVectorReversed(n1, n2) == PositionSub(n1.position, n2.position)

\* r = n2.position - n1.position
linkVector(n1, n2) == PositionSub(n2.position, n1.position)

\* the pass as it would be if a missing node counted as a default Node() at the
\* origin
calcLinkDefaultNode(m, l) ==
    LET n1 == IF hasNode(m, l.node1_Name) THEN getNode(m, l.node1_Name)[1]
              ELSE Node(l.node1_Name, Position(0, 0))
        n2 == IF hasNode(m, l.node2_Name) THEN getNode(m, l.node2_Name)[1]
              ELSE Node(l.node2_Name, Position(0, 0))
        r == linkVector(n1, n2)
    IN  [l EXCEPT !.length = Some(mag(r)), !.angleRad = Some(getAngleRad(r))]

\* one pass of the loop of calcLinkVals over link l
calcLink(m, l) ==
    LET n1 == IF hasNode(m, l.node1_Name) THEN getNode(m, l.node1_Name) ELSE None
        n2 == IF hasNode(m, l.node2_Name) THEN getNode(m, l.node2_Name) ELSE None
    IN  IF n1 # None /\ n2 # None
        THEN LET r == linkVector(n1[1], n2[1])
             IN  [l EXCEPT !.length = Some(mag(r)),
                           !.angleRad = Some(getAngleRad(r))]
        ELSE l

\* the pass as it would be if it added the measured links to the list instead
\* of updating them in place
calcLinkValsAppends(m) ==
    [m EXCEPT !.links = m.links \o [k \in 1..Len(m.links) |-> calcLink(m, m.links[k])]]

\* the pass as it would be if it ended at the first link with a missing node
calcLinkValsStopsAtMissing(m) ==
    LET missing == {k \in 1..Len(m.links) :
                       ~hasNode(m, m.links[k].node1_Name)
                       \/ ~hasNode(m, m.links[k].node2_Name)}
    IN  [m EXCEPT !.links = [k \in 1..Len(m.links) |->
                                IF missing # {} /\ k > MinOf(missing)
                                THEN m.links[k] ELSE calcLink(m, m.links[k])]]

calcLinkVals(m) ==
    [m EXCEPT !.links = [k \in 1..Len(m.links) |-> calcLink(m, m.links[k])]]

\* ------------------------------------------------ parsing of one record
\* the outcome of a step: the model it leaves and the exception it raised
Ok(m) == [truss |-> m, exc |-> None]
Raise(m, type, msg) == [truss |-> m, exc |-> Some([type |-> type, msg |-> msg])]

NotEnough == "not enough values to unpack"
TooMany == "too many values to unpack"
BadFloat == "could not convert string to float"
BadIndex == "list index out of range"

\* case 'title': self.truss.title = data[0].strip("'")
parseTitle(m, cells) ==
    IF Len(cells) = 0 THEN Raise(m, "IndexError", BadIndex)
    ELSE Ok([m EXCEPT !.title = Some(strip(cells[1], {"'"}))])

\* the material as it would be with the modulus read from the first field again
newMaterialModulusFromUts(uts, ys, modulus) ==
    Material(Some(uts), Some(ys), Some(uts))

\* Material(uts=uts, ys=ys, modulus=modulus)
newMaterial(uts, ys, modulus) == Material(Some(uts), Some(ys), Some(modulus))

\* the case as it would be if it assigned the three fields of the material the
\* model has, the static factor staying as it is
parseMaterialInPlace(m, cells) ==
    LET bad == {k \in 1..Len(cells) : k <= 4 /\ ~isFloat(cells[k])}
    IN  IF bad # {} THEN Raise(m, "ValueError", BadFloat)
        ELSE IF Len(cells) < 3 THEN Raise(m, "ValueError", NotEnough)
        ELSE IF Len(cells) > 3 THEN Raise(m, "ValueError", TooMany)
        ELSE Ok([m EXCEPT !.material.uts = Some(float(cells[1])),
                          !.material.ys = Some(float(cells[2])),
                          !.material.E = Some(float(cells[3]))])

\* case 'material': uts, ys, modulus = map(float, data); the map is consumed
\* item by item, three for the targets and one more to see that it is exhausted
parseMaterial(m, cells) ==
    LET bad == {k \in 1..Len(cells) : k <= 4 /\ ~isFloat(cells[k])}
    IN  IF bad # {} THEN Raise(m, "ValueError", BadFloat)
        ELSE IF Len(cells) < 3 THEN Raise(m, "ValueError", NotEnough)
        ELSE IF Len(cells) > 3 THEN Raise(m, "ValueError", TooMany)
        ELSE Ok([m EXCEPT !.material =
                    newMaterial(float(cells[1]), float(cells[2]), float(cells[3]))])

\* case 'static_factor': self.truss.material.staticFactor = float(data[0])
parseStaticFactor(m, cells) ==
    IF Len(cells) = 0 THEN Raise(m, "IndexError", BadIndex)
    ELSE IF ~isFloat(cells[1]) THEN Raise(m, "ValueError", BadFloat)
    ELSE Ok([m EXCEPT !.material.staticFactor = Some(float(cells[1]))])

\* the position as it would be without the change of sign of y
nodePositionNoFlip(x, y) == Position(float(x), float(y))

\* Position(x=float(x), y=-float(y))
nodePosition(x, y) == Position(float(x), 0 - float(y))

\* case 'node': name, x, y = data; self.addNode(Node(...))
parseNode(m, cells) ==
    IF Len(cells) < 3 THEN Raise(m, "ValueError", NotEnough)
    ELSE IF Len(cells) > 3 THEN Raise(m, "ValueError", TooMany)
    ELSE IF ~isFloat(cells[2]) \/ ~isFloat(cells[3])
    THEN Raise(m, "ValueError", BadFloat)
    ELSE Ok(addNode(m, Node(cells[1], nodePosition(cells[2], cells[3]))))

\* case 'link': name, node1, node2 = data; self.addLink(Link(...))
parseLink(m, cells) ==
    IF Len(cells) < 3 THEN Raise(m, "ValueError", NotEnough)
    ELSE IF Len(cells) > 3 THEN Raise(m, "ValueError", TooMany)
    ELSE Ok(addLink(m, Link(cells[1], cells[2], cells[3])))

\* line.split(',') with every part stripped
partsOf(line) ==
    LET raw == split(line) IN [k \in 1..Len(raw) |-> strip(raw[k], Whitespace)]

KwTitle == <<"t","i","t","l","e">>
KwMaterial == <<"m","a","t","e","r","i","a","l">>
KwStaticFactor == <<"s","t","a","t","i","c","_","f","a","c","t","o","r">>
KwNode == <<"n","o","d","e">>
KwLink == <<"l","i","n","k">>

\* the body as it would be if the comment sign were trimmed off with the blanks
parseLineTrimsCommentSign(m, rawLine) ==
    LET line == strip(rawLine, Whitespace \cup {"#"})
    IN  IF line = <<>> THEN Ok(m)
        ELSE LET parts == partsOf(line)
                 keyword == lower(parts[1])
                 cells == Tail(parts)
             IN  CASE keyword = KwTitle -> parseTitle(m, cells)
                   [] keyword = KwMaterial -> parseMaterial(m, cells)
                   [] keyword = KwStaticFactor -> parseStaticFactor(m, cells)
                   [] keyword = KwNode -> parseNode(m, cells)
                   [] keyword = KwLink -> parseLink(m, cells)
                   [] OTHER -> Ok(m)

\* the body as it would be if a keyword it does not know were an error
parseLineRejectsUnknown(m, rawLine) ==
    LET line == strip(rawLine, Whitespace)
    IN  IF startswith(line, "#") \/ line = <<>> THEN Ok(m)
        ELSE LET parts == partsOf(line)
                 keyword == lower(parts[1])
                 cells == Tail(parts)
             IN  CASE keyword = KwTitle -> parseTitle(m, cells)
                   [] keyword = KwMaterial -> parseMaterial(m, cells)
                   [] keyword = KwStaticFactor -> parseStaticFactor(m, cells)
                   [] keyword = KwNode -> parseNode(m, cells)
                   [] keyword = KwLink -> parseLink(m, cells)
                   [] OTHER -> Raise(m, "ValueError", "unknown keyword")

\* the body of the for loop of ImportFromFile for one raw line
parseLine(m, rawLine) ==
    LET line == strip(rawLine, Whitespace)
    IN  IF startswith(line, "#") \/ line = <<>> THEN Ok(m)
        ELSE LET parts == partsOf(line)
                 keyword == lower(parts[1])
                 cells == Tail(parts)
             IN  CASE keyword = KwTitle -> parseTitle(m, cells)
                   [] keyword = KwMaterial -> parseMaterial(m, cells)
                   [] keyword = KwStaticFactor -> parseStaticFactor(m, cells)
                   [] keyword = KwNode -> parseNode(m, cells)
                   [] keyword = KwLink -> parseLink(m, cells)
                   [] OTHER -> Ok(m)

\* ---------------------------------------------------------- TrussView
\* TrussView.__init__: empty widgets and an empty scene
NewView ==
    [te_Report |-> <<>>, le_LongLinkName |-> <<>>, le_LongLinkNode1 |-> <<>>,
     le_LongLinkNode2 |-> <<>>, le_LongLinkLength |-> <<>>, scene |-> <<>>]

ViewOk(v) == [view |-> v, exc |-> None]
ViewRaise(v, type, msg) == [view |-> v, exc |-> Some([type |-> type, msg |-> msg])]

\* '{:0.2f}'.format(v) of a number v (the caller sees to it that v is set)
fmt2(v) == [f2 |-> v]
\* '{}'.format(title): the text, or the word None
fmtStr(t) == IF t = None THEN <<"N","o","n","e">> ELSE t[1]

BadFormat == "unsupported format string passed to NoneType.__format__"
BadCompare == "'>' not supported between instances"
NoAttribute == "'NoneType' object has no attribute 'name'"

\* the loop of displayReport over links[k..]: the longest link so far
RECURSIVE scanLongest(_, _, _)
scanLongest(links, k, longest) ==
    IF k > Len(links) THEN longest
    ELSE scanLongest(links, k + 1,
            IF longest = None
               \/ Longer(links[k].length[1], longest[1].length[1])
            THEN Some(links[k]) ELSE longest)

\* the line as it would be with the two node names exchanged
reportLineNodesExchanged(l) ==
    <<l.name, l.node2_Name, l.node1_Name, fmt2(l.length[1]), fmt2(l.angleRad[1])>>

reportLine(l) ==
    <<l.name, l.node1_Name, l.node2_Name, fmt2(l.length[1]), fmt2(l.angleRad[1])>>

reportText(m) ==
    <<  <<"\tTruss Design Report">>,
        <<"Title:  ", fmtStr(m.title)>>,
        <<"Static Factor of Safety:  ", fmt2(m.material.staticFactor[1])>>,
        <<"Ultimate Strength:  ", fmt2(m.material.uts[1])>>,
        <<"Yield Strength:  ", fmt2(m.material.ys[1])>>,
        <<"Modulus of Elasticity:  ", fmt2(m.material.E[1])>>,
        <<"_____________Link Summary________________">>,
        <<"Link\t(1)\t(2)\tLength\tAngle">>  >>
    \o [k \in 1..Len(m.links) |-> reportLine(m.links[k])]

\* TrussView.displayReport
displayReport(v, m) ==
    IF m.material.staticFactor = None \/ m.material.uts = None
       \/ m.material.ys = None \/ m.material.E = None
    THEN ViewRaise(v, "TypeError", BadFormat)
    ELSE IF \E k \in 1..Len(m.links) : m.links[k].length = None
    THEN LET k == MinOf({n \in 1..Len(m.links) : m.links[n].length = None})
         IN  ViewRaise(v, "TypeError", IF k = 1 THEN BadFormat ELSE BadCompare)
    ELSE LET shown == [v EXCEPT !.te_Report = reportText(m)]
             longest == scanLongest(m.links, 1, None)
         IN  IF longest = None THEN ViewRaise(shown, "AttributeError", NoAttribute)
             ELSE ViewOk([shown EXCEPT
                     !.le_LongLinkName = longest[1].name,
                     !.le_LongLinkLength = <<fmt2(longest[1].length[1])>>,
                     !.le_LongLinkNode1 = longest[1].node1_Name,
                     !.le_LongLinkNode2 = longest[1].node2_Name])

SceneItem(kind, name, p1, p2) == [kind |-> kind, name |-> name, p1 |-> p1, p2 |-> p2]
Origin == Position(0, 0)
NmLeft == <<"L","e","f","t">>
NmRight == <<"R","i","g","h","t">>
NmC == <<"C">>

\* drawAGrid: the background rectangle and the grid lines, kept as one item
gridItems == <<SceneItem("grid", <<>>, Origin, Origin)>>

\* the loop of drawLinks over links[k..]; RigidLink.linkAngle divides by the
\* link's length on screen
RECURSIVE drawLinksFrom(_, _, _)
drawLinksFrom(m, k, items) ==
    IF k > Len(m.links) THEN [items |-> items, exc |-> None]
    ELSE LET l == m.links[k]
             node1 == getNode(m, l.node1_Name)
             node2 == getNode(m, l.node2_Name)
         IN  IF node1 = None \/ node2 = None THEN drawLinksFrom(m, k + 1, items)
             ELSE LET p1 == node1[1].position
                      p2 == node2[1].position
                      road == IF (l.node1_Name = NmLeft /\ l.node2_Name = NmC)
                                  \/ (l.node1_Name = NmC /\ l.node2_Name = NmRight)
                              THEN <<SceneItem("RigidSurface", <<>>, p1, p2)>>
                              ELSE <<>>
                  IN  IF p1.x = p2.x /\ p1.y = p2.y
                      THEN [items |-> items \o road,
                            exc |-> Some([type |-> "ZeroDivisionError",
                                          msg |-> "float division by zero"])]
                      ELSE drawLinksFrom(m, k + 1,
                              (items \o road) \o <<SceneItem("RigidLink", <<>>, p1, p2)>>)

\* drawNodes: a pivot under Left and Right, a label at every node
nodeItems(n) ==
    (IF n.name \in {NmLeft, NmRight}
     THEN <<SceneItem("RigidPivotPoint", <<>>, n.position, n.position)>> ELSE <<>>)
    \o <<SceneItem("label", n.name, n.position, n.position)>>

RECURSIVE drawNodesFrom(_, _)
drawNodesFrom(m, k) ==
    IF k > Len(m.nodes) THEN <<>> ELSE nodeItems(m.nodes[k]) \o drawNodesFrom(m, k + 1)

\* TrussView.buildScene: scene.clear(), then the grid, the links, the nodes
buildScene(v, m) ==
    LET drawn == drawLinksFrom(m, 1, gridItems)
    IN  IF drawn.exc # None
        THEN [view |-> [v EXCEPT !.scene = drawn.items], exc |-> drawn.exc]
        ELSE ViewOk([v EXCEPT !.scene = drawn.items \o drawNodesFrom(m, 1)])

\* -------------------------------------------- the lines of truss files
\* # truss\n
LnComment == <<"#"," ","t","r","u","s","s","\n">>
\* title, 'Test'\n
LnTitle == <<"t","i","t","l","e",","," ","'","T","e","s","t","'","\n">>
\* material,9,5,7\n
LnMaterial == <<"m","a","t","e","r","i","a","l",",","9",",","5",",","7","\n">>
\* Static_Factor, 2\n
LnStaticFactor == <<"S","t","a","t","i","c","_","F","a","c","t","o","r",","," ","2","\n">>
\* node,A,0,0
LnNodeA == <<"n","o","d","e",",","A",",","0",",","0">>
\* node,A,3,4   -- a second record for node A
LnNodeA2 == <<"n","o","d","e",",","A",",","3",",","4">>
\* node, B, 3, 4\n
LnNodeB == <<"n","o","d","e",","," ","B",","," ","3",","," ","4","\n">>
\* node,D,0,-2
LnNodeD == <<"n","o","d","e",",","D",",","0",",","-","2">>
\* link,L1,A,B\n
LnLinkAB == <<"l","i","n","k",",","L","1",",","A",",","B","\n">>
\* link,L2,B,D
LnLinkBD == <<"l","i","n","k",",","L","2",",","B",",","D">>
\* link,L3,A,Z   -- no node is named Z
LnLinkAZ == <<"l","i","n","k",",","L","3",",","A",",","Z">>
\* link,L4,A,A
LnLinkAA == <<"l","i","n","k",",","L","4",",","A",",","A">>
\* beam,L1,A
LnUnknown == <<"b","e","a","m",",","L","1",",","A">>
\*   \n
LnBlank == <<" "," ","\n">>
\* title   -- no field
LnBadTitle == <<"t","i","t","l","e">>
\* material,9,5   -- two fields
LnBadMaterial == <<"m","a","t","e","r","i","a","l",",","9",",","5">>
\* material,9,x,7   -- a field that is no number
LnBadMaterialNum == <<"m","a","t","e","r","i","a","l",",","9",",","x",",","7">>
\* static_factor,two   -- a field that is no number
LnBadStaticFactor == <<"s","t","a","t","i","c","_","f","a","c","t","o","r",",","t","w","o">>
\* node,C,notanumber,1   -- a field that is no number
LnBadNode == <<"n","o","d","e",",","C",",","n","o","t","a","n","u","m","b","e","r",",","1">>
\* node,C,1   -- two fields
LnBadNodeShort == <<"n","o","d","e",",","C",",","1">>
\* link,L5,A   -- two fields
LnBadLink == <<"l","i","n","k",",","L","5",",","A">>
\* node,F,3,0
LnNodeF == <<"n","o","d","e",",","F",",","3",",","0">>
\* node, E ,0,0   -- the place of node A
LnNodeE == <<"n","o","d","e",","," ","E"," ",",","0",",","0">>
\* link,L2,B,A
LnLinkBA == <<"l","i","n","k",",","L","2",",","B",",","A">>
\* link,L3,A,F
LnLinkAF == <<"l","i","n","k",",","L","3",",","A",",","F">>
\* link,L1,F,A   -- the name of the link from A to B
LnLinkFA == <<"l","i","n","k",",","L","1",",","F",",","A">>
\* link,L5,A,E
LnLinkAE == <<"l","i","n","k",",","L","5",",","A",",","E">>
\* link,L6,E,A
LnLinkEA == <<"l","i","n","k",",","L","6",",","E",",","A">>
\* \n   -- an empty line
LnNewline == <<"\n">>
\* #
LnCommentBare == <<"#">>
\*   #node,A,9,9\n   -- a record behind a comment sign
LnCommentedNode == <<" "," ","#","n","o","d","e",",","A",",","9",",","9","\n">>
\* Nodes   -- one field
LnUnknownBare == <<"N","o","d","e","s">>
\* material, 1, 2, 3\n
LnMaterialB == <<"m","a","t","e","r","i","a","l",","," ","1",","," ","2",","," ","3","\n">>
\* static_factor,3
LnStaticFactorB == <<"s","t","a","t","i","c","_","f","a","c","t","o","r",",","3">>
\* link,L1,A,X
LnLinkAX == <<"l","i","n","k",",","L","1",",","A",",","X">>
\* node,X,x,y for the texts x and y
LnNodeX(x, y) == ((<<"n","o","d","e",",","X",",">> \o x) \o <<",">>) \o y
\* the places of X: on the axes, in the four quadrants, at the place of A, and
\* 2^28 along the x axis with y = 1, 0 or -1
Far == <<"2","6","8","4","3","5","4","5","6">>
PlacesOfX ==
    {<<<<"3">>, <<"4">>>>,
     <<<<"3">>, <<"-","4">>>>,
     <<<<"-","3">>, <<"4">>>>,
     <<<<"-","3">>, <<"-","4">>>>,
     <<<<"3">>, <<"0">>>>,
     <<<<"-","3">>, <<"0">>>>,
     <<<<"0">>, <<"2">>>>,
     <<<<"0">>, <<"-","2">>>>,
     <<<<"0">>, <<"0">>>>,
     <<Far, <<"1">>>>,
     <<Far, <<"-","1">>>>,
     <<<<"-">> \o Far, <<"1">>>>,
     <<<<"-">> \o Far, <<"-","1">>>>,
     <<Far, <<"0">>>>}
\* link,L9,A,B
LnLinkAB9 == <<"l","i","n","k",",","L","9",",","A",",","B">>
\* link,L1,E,B
LnLinkEB == <<"l","i","n","k",",","L","1",",","E",",","B">>
\* node,B,3,-4
LnNodeBUp == <<"n","o","d","e",",","B",",","3",",","-","4">>
\* node,B,6,8
LnNodeBFar == <<"n","o","d","e",",","B",",","6",",","8">>
\* node,C,3,4
LnNodeC == <<"n","o","d","e",",","C",",","3",",","4">>
\* link,L1,A,C
LnLinkAC == <<"l","i","n","k",",","L","1",",","A",",","C">>

\* the sequences over pool of length at most n
SeqsUpTo(pool, n) == UNION {[1..k -> pool] : k \in 0..n}

FullHeader == <<LnComment, LnTitle, LnMaterial, LnStaticFactor>>

\* the files a scenario imports: a header block followed by body records
GeometryPool == {LnNodeA, LnNodeA2, LnNodeB, LnNodeD, LnLinkAB, LnLinkBD, LnLinkAZ}
GeometryFiles ==
    {h \o b : h \in {<<>>, FullHeader}, b \in SeqsUpTo(GeometryPool, MaxLines)}

MalformedPool ==
    {LnNodeA, LnLinkAA, LnBadTitle, LnBadMaterial, LnBadMaterialNum,
     LnBadStaticFactor, LnBadNode, LnBadNodeShort, LnBadLink}
MalformedFiles ==
    {h \o b : h \in {<<>>, FullHeader}, b \in SeqsUpTo(MalformedPool, MaxLines)}

RepeatFiles ==
    { <<>>,
      FullHeader \o <<LnNodeA, LnNodeB, LnLinkAB>>,
      <<LnMaterial, LnNodeA2, LnNodeD, LnLinkAZ>>,
      <<LnTitle, LnNodeB, LnBadNode>>,
      <<LnStaticFactor, LnBlank, LnUnknown>>,
      FullHeader \o <<LnNodeA, LnLinkAA>>,
      FullHeader \o <<LnNodeD, LnNodeB, LnLinkBD>>,
      <<LnNodeA, LnNodeA2, LnLinkAB>> }

\* four nodes (E at the place of A) and links between them in both directions
PairsPool == {LnLinkAB, LnLinkBA, LnLinkAF, LnLinkFA, LnLinkAE, LnLinkEA}
PairsFiles ==
    {(FullHeader \o <<LnNodeA, LnNodeB, LnNodeF, LnNodeE>>) \o b :
        b \in SeqsUpTo(PairsPool, MaxLines)}

\* blank lines, comments and records of unknown keywords inside a good file
SkippedPool ==
    {LnBlank, LnNewline, LnCommentBare, LnCommentedNode, LnUnknown, LnUnknownBare}
SkippedFiles ==
    {((FullHeader \o <<LnNodeA>>) \o b) \o <<LnNodeB, LnLinkAB>> :
        b \in SeqsUpTo(SkippedPool, MaxLines)}

\* material and static factor records in any order, then a truss of one link
MaterialPool == {LnMaterial, LnMaterialB, LnStaticFactor, LnStaticFactorB}
MaterialFiles ==
    {b \o <<LnNodeA, LnNodeB, LnLinkAB>> : b \in SeqsUpTo(MaterialPool, MaxLines)}

\* node A at the origin, node X at one of its places, and the link from A to X
AngleFiles ==
    {FullHeader \o <<LnNodeA, LnNodeX(c[1], c[2]), LnLinkAX>> : c \in PlacesOfX}

\* files whose links agree in some of name, node names, length and angle
LinkFiles ==
    { FullHeader \o <<LnNodeA, LnNodeB, LnNodeE, LnLinkAB, LnLinkAB9, LnLinkEB>>,
      <<LnNodeA, LnNodeBUp, LnLinkAB>>,
      <<LnNodeA, LnNodeBFar, LnLinkAB>>,
      <<LnNodeA, LnNodeC, LnLinkAC>>,
      <<LnLinkAB>> }

Files(s) ==
    CASE s = "geometry" -> GeometryFiles
      [] s = "malformed" -> MalformedFiles
      [] s = "repeat" -> RepeatFiles
      [] s = "pairs" -> PairsFiles
      [] s = "skipped" -> SkippedFiles
      [] s = "material" -> MaterialFiles
      [] s = "angles" -> AngleFiles
      [] s = "links" -> LinkFiles

\* how many files the scenario imports one after the other
ImportLimit(s) == IF s \in {"repeat", "links"} THEN MaxImports ELSE 1

\* ------------------------------------------------------------- the state
\* models   every TrussModel object constructed so far, in order of construction
\* truss    self.truss: the index in models of the controller's model
\* view     self.view, the TrussView
\* pc       the statement ImportFromFile executes next; "idle" outside a call
\* data, i  the lines being imported and the 1-based position in them
\* err      the exception the last call raised (with the method it left),
\*          None when it returned
\* imports  the number of calls made
Truss == models[truss]

InitWith(s) ==
    /\ models = <<TrussModel>>
    /\ truss = 1
    /\ view = NewView
    /\ pc = "idle"
    /\ data = <<>>
    /\ i = 1
    /\ err = None
    /\ imports = 0
    /\ scenario = s

Init == InitWith("geometry")
InitMalformed == InitWith("malformed")
InitRepeat == InitWith("repeat")
InitPairs == InitWith("pairs")
InitSkipped == InitWith("skipped")
InitMaterial == InitWith("material")
InitAngles == InitWith("angles")
InitLinks == InitWith("links")

Raised(exc, where) == Some([type |-> exc[1].type, msg |-> exc[1].msg, at |-> where])

\* the call as it would be without the reset: the model of the earlier call is
\* filled further
resetModelSkipped(ms) == ms

\* self.truss = TrussModel(): a new object, the earlier ones stay as they are
resetModel(ms) == Append(ms, TrussModel)

\* ImportFromFile(data), up to the first line of the loop
ImportFromFile(d) ==
    /\ models' = resetModel(models)
    /\ truss' = Len(models')
    /\ data' = d
    /\ i' = 1
    /\ err' = None
    /\ imports' = imports + 1
    /\ pc' = IF d = <<>> THEN "calc" ELSE "parse"
    /\ UNCHANGED <<view, scenario>>

\* the loop as it would be if displayReport were called right after it, before
\* calcLinkVals
ParseLineThenReport ==
    /\ pc = "parse"
    /\ LET r == parseLine(Truss, data[i])
       IN  /\ models' = [models EXCEPT ![truss] = r.truss]
           /\ IF r.exc # None
              THEN /\ err' = Raised(r.exc, "ImportFromFile")
                   /\ pc' = "idle"
                   /\ i' = i
              ELSE /\ err' = err
                   /\ i' = i + 1
                   /\ pc' = IF i + 1 > Len(data) THEN "report" ELSE "parse"
    /\ UNCHANGED <<truss, view, data, imports, scenario>>

\* one round of the for loop
ParseLine ==
    /\ pc = "parse"
    /\ LET r == parseLine(Truss, data[i])
       IN  /\ models' = [models EXCEPT ![truss] = r.truss]
           /\ IF r.exc # None
              THEN /\ err' = Raised(r.exc, "ImportFromFile")
                   /\ pc' = "idle"
                   /\ i' = i
              ELSE /\ err' = err
                   /\ i' = i + 1
                   /\ pc' = IF i + 1 > Len(data) THEN "calc" ELSE "parse"
    /\ UNCHANGED <<truss, view, data, imports, scenario>>

\* self.calcLinkVals()
CalcLinkVals ==
    /\ pc = "calc"
    /\ models' = [models EXCEPT ![truss] = calcLinkVals(Truss)]
    /\ pc' = "report"
    /\ UNCHANGED <<truss, view, data, i, err, imports, scenario>>

\* the report as it would be if it first gave every link without a length the
\* length 0 and the angle 0, in the model
DisplayReportFillsLengths ==
    /\ pc = "report"
    /\ LET filled == [Truss EXCEPT !.links =
                        [k \in 1..Len(Truss.links) |->
                            IF Truss.links[k].length = None
                            THEN [Truss.links[k] EXCEPT
                                    !.length = Some([sqrtOf |-> 0]),
                                    !.angleRad = Some(Zero)]
                            ELSE Truss.links[k]]]
           r == displayReport(view, filled)
       IN  /\ models' = [models EXCEPT ![truss] = filled]
           /\ view' = r.view
           /\ IF r.exc # None
              THEN err' = Raised(r.exc, "displayReport") /\ pc' = "idle"
              ELSE err' = err /\ pc' = "draw"
    /\ UNCHANGED <<truss, data, i, imports, scenario>>

\* self.displayReport()
DisplayReport ==
    /\ pc = "report"
    /\ LET r == displayReport(view, Truss)
       IN  /\ view' = r.view
           /\ IF r.exc # None
              THEN err' = Raised(r.exc, "displayReport") /\ pc' = "idle"
              ELSE err' = err /\ pc' = "draw"
    /\ UNCHANGED <<models, truss, data, i, imports, scenario>>

\* the drawing as it would be if it turned the nodes of the model to screen
\* coordinates in place, y upwards again
DrawTrussMovesNodes ==
    /\ pc = "draw"
    /\ LET r == buildScene(view, Truss)
       IN  /\ view' = r.view
           /\ err' = IF r.exc # None THEN Raised(r.exc, "buildScene") ELSE err
    /\ models' = [models EXCEPT ![truss].nodes =
                    [k \in 1..Len(Truss.nodes) |->
                        [Truss.nodes[k] EXCEPT !.position.y = 0 - @]]]
    /\ pc' = "idle"
    /\ UNCHANGED <<truss, data, i, imports, scenario>>

\* self.drawTruss()
DrawTruss ==
    /\ pc = "draw"
    /\ LET r == buildScene(view, Truss)
       IN  /\ view' = r.view
           /\ err' = IF r.exc # None THEN Raised(r.exc, "buildScene") ELSE err
    /\ pc' = "idle"
    /\ UNCHANGED <<models, truss, data, i, imports, scenario>>

Next ==
    \/ /\ pc = "idle"
       /\ imports < ImportLimit(scenario)
       /\ \E d \in Files(scenario) : ImportFromFile(d)
    \/ ParseLine
    \/ CalcLinkVals
    \/ DisplayReport
    \/ DrawTruss

Spec == Init /\ [][Next]_vars
SpecMalformed == InitMalformed /\ [][Next]_vars
SpecRepeat == InitRepeat /\ [][Next]_vars
SpecPairs == InitPairs /\ [][Next]_vars
SpecSkipped == InitSkipped /\ [][Next]_vars
SpecMaterial == InitMaterial /\ [][Next]_vars
SpecAngles == InitAngles /\ [][Next]_vars
SpecLinks == InitLinks /\ [][Next]_vars

\* ------------------------------------------- reading a state and its input
\* the keyword of a raw line (empty for a blank line or a comment) and its fields
Keyword(rawLine) ==
    LET l == strip(rawLine, Whitespace)
    IN  IF l = <<>> \/ startswith(l, "#") THEN <<>> ELSE lower(partsOf(l)[1])
Cells(rawLine) == Tail(partsOf(strip(rawLine, Whitespace)))

\* the call left the parsing loop by an exception
ParseFailed == pc = "idle" /\ err # None /\ err[1].at = "ImportFromFile"
\* the parsing loop of the latest call has run to its end
Parsed == imports > 0 /\ pc # "parse" /\ ~ParseFailed
\* calcLinkVals of the latest call has run
Calculated == Parsed /\ pc # "calc"
\* displayReport of the latest call has run (to its end or to an exception)
Reported == Calculated /\ pc # "report"
\* the number of lines of data the loop has dealt with
LinesDone == IF pc = "parse" \/ ParseFailed THEN i - 1 ELSE Len(data)
\* the lines dealt with, each as its keyword and fields
Record(rawLine) ==
    LET l == strip(rawLine, Whitespace)
        parts == partsOf(l)
    IN  [kw |-> IF l = <<>> \/ startswith(l, "#") THEN <<>> ELSE lower(parts[1]),
         cells |-> Tail(parts)]
RecordsDone == [k \in 1..LinesDone |-> Record(data[k])]
Of(recs, kw) == {k \in DOMAIN recs : recs[k].kw = kw}
\* the position a node record stands for: (x, -y, 0)
RecordPosition(rec) ==
    [x |-> float(rec.cells[2]), y |-> 0 - float(rec.cells[3]), z |-> 0]
Resolves(m, name) == \E k \in 1..Len(m.nodes) : m.nodes[k].name = name
FirstNamed(m, name) ==
    m.nodes[MinOf({k \in 1..Len(m.nodes) : m.nodes[k].name = name})]

\* C1: when the input holds two node records of one name with different
\* coordinates, getNode(name) returns, once the input is parsed, a node at the
\* position of the first record of that name.
C1_FirstNodeRecordWins ==
    Parsed =>
        LET recs == RecordsDone
            nodes == Of(recs, KwNode)
        IN  \A j, k \in nodes :
                (j < k /\ recs[j].cells[1] = recs[k].cells[1]
                       /\ RecordPosition(recs[j]) # RecordPosition(recs[k]))
                => LET name == recs[j].cells[1]
                       first == MinOf({n \in nodes : recs[n].cells[1] = name})
                   IN  /\ getNode(Truss, name) # None
                       /\ getNode(Truss, name)[1].position = RecordPosition(recs[first])

C1_Witness ==
    /\ pc = "idle" /\ err = None /\ imports > 0
    /\ LET recs == RecordsDone
       IN  \E j, k \in Of(recs, KwNode) :
              /\ j < k
              /\ recs[j].cells[1] = recs[k].cells[1]
              /\ RecordPosition(recs[j]) # RecordPosition(recs[k])

\* C2: no two nodes of the model's node list have the same name.
C2_NodeNamesUnique ==
    \A a, b \in 1..Len(Truss.nodes) :
        a # b => Truss.nodes[a].name # Truss.nodes[b].name

\* what a parsed model holds of input d, record by record
HoldsInputOf(m, d) ==
    LET recs(kw) == {k \in 1..Len(d) : Keyword(d[k]) = kw}
        nth(kw, k) == Cardinality({j \in recs(kw) : j <= k})
    IN  /\ Len(m.nodes) = Cardinality(recs(KwNode))
        /\ \A k \in recs(KwNode) : m.nodes[nth(KwNode, k)].name = Cells(d[k])[1]
        /\ Len(m.links) = Cardinality(recs(KwLink))
        /\ \A k \in recs(KwLink) : m.links[nth(KwLink, k)].name = Cells(d[k])[1]
        /\ m.title = IF recs(KwTitle) = {} THEN None
                     ELSE Some(strip(Cells(d[MaxOf(recs(KwTitle))])[1], {"'"}))
        /\ (recs(KwMaterial) = {}) = (m.material.uts = None)
        /\ (recs(KwMaterial) = {}) = (m.material.ys = None)
        /\ (recs(KwMaterial) = {}) = (m.material.E = None)
        /\ (m.material.staticFactor # None) =>
               (recs(KwStaticFactor) # {}
                /\ (recs(KwMaterial) # {} =>
                       MaxOf(recs(KwStaticFactor)) > MaxOf(recs(KwMaterial))))
        /\ (recs(KwStaticFactor) = {}) => m.material.staticFactor = None

\* C3: every step leaves the model objects of earlier imports as they were, and
\* once an input is parsed the controller's model holds the title, material,
\* nodes and links of that input and nothing else.
C3_ModelRebuiltOnEveryImport ==
    [][ /\ \A k \in 1..Len(models) : k # truss' => models'[k] = models[k]
        /\ Parsed' => HoldsInputOf(models'[truss'], data') ]_vars

C3_Witness ==
    /\ imports = 2 /\ Parsed /\ truss = 3
    /\ models[2].title # None /\ Len(models[2].nodes) > 0 /\ Len(models[2].links) > 0
    /\ Truss.title = None /\ Len(Truss.nodes) > 0
    /\ Truss.nodes[1] # models[2].nodes[1]

\* C4: an import that fails on a malformed record fails with a
\* MalformedRecordError.
C4_FailsWithMalformedRecordError ==
    ParseFailed => err[1].type = "MalformedRecordError"

\* C5: when an import fails on a malformed record, the controller's model holds
\* nothing of the records before it: no title, no material, no node, no link.
C5_NoPartialModelAfterFailure ==
    ParseFailed => Truss = TrussModel

\* C6: every node of the model comes from a node record 'node, name, x, y' of
\* the input and stands at (x, -y, 0).
C6_NodeAtXMinusY ==
    LET recs == RecordsDone
        nodes == Of(recs, KwNode)
    IN  \A n \in 1..Len(Truss.nodes) :
            \E k \in nodes :
                /\ Truss.nodes[n].name = recs[k].cells[1]
                /\ Truss.nodes[n].position = RecordPosition(recs[k])

C6_Witness ==
    /\ pc = "idle" /\ err = None /\ imports > 0
    /\ \E n \in 1..Len(Truss.nodes) :
          /\ Truss.nodes[n].name = <<"B">>
          /\ Truss.nodes[n].position = [x |-> 3, y |-> 0 - 4, z |-> 0]
    /\ \E n \in 1..Len(Truss.nodes) :
          /\ Truss.nodes[n].name = <<"D">>
          /\ Truss.nodes[n].position = [x |-> 0, y |-> 2, z |-> 0]

\* C7: once a record 'material, a, b, c' is parsed the material has
\* uts = a, ys = b and E = c (those of the last such record).
C7_MaterialFieldsStored ==
    LET recs == RecordsDone
        materials == Of(recs, KwMaterial)
    IN  materials # {} =>
            LET c == recs[MaxOf(materials)].cells
            IN  /\ Truss.material.uts = Some(float(c[1]))
                /\ Truss.material.ys = Some(float(c[2]))
                /\ Truss.material.E = Some(float(c[3]))

C7_Witness ==
    /\ pc = "idle" /\ err = None /\ imports > 0
    /\ Truss.material.uts = Some(9)
    /\ Truss.material.ys = Some(5)
    /\ Truss.material.E = Some(7)

\* the angle a is the planar angle of the vector (dx, dy, 0)
IsPlanarAngleOf(a, dx, dy) ==
    IF dx = 0 /\ dy = 0 THEN a = Zero
    ELSE /\ a.turn = IF dy >= 0 THEN "acos" ELSE "2pi-acos"
         /\ a.cos.sgn = (IF dx > 0 THEN 1 ELSE IF dx < 0 THEN 0 - 1 ELSE 0)
         /\ a.cos.q > 0
         /\ a.cos.p * (dx * dx + dy * dy) = a.cos.q * (dx * dx)
         /\ GCD(a.cos.p, a.cos.q) = 1

\* C8: after calcLinkVals every link whose two node names resolve has the
\* length |node2.position - node1.position| and the planar angle of that vector.
C8_ResolvedLinkGeometry ==
    Calculated =>
        \A k \in 1..Len(Truss.links) :
            LET l == Truss.links[k]
            IN  (Resolves(Truss, l.node1_Name) /\ Resolves(Truss, l.node2_Name)) =>
                    LET p1 == FirstNamed(Truss, l.node1_Name).position
                        p2 == FirstNamed(Truss, l.node2_Name).position
                        dx == p2.x - p1.x
                        dy == p2.y - p1.y
                        dz == p2.z - p1.z
                    IN  /\ l.length = Some([sqrtOf |-> dx * dx + dy * dy + dz * dz])
                        /\ l.angleRad # None
                        /\ IsPlanarAngleOf(l.angleRad[1], dx, dy)

C8_Witness ==
    /\ pc = "idle" /\ err = None /\ imports > 0
    /\ \E k \in 1..Len(Truss.links) :
          /\ Truss.links[k].node1_Name = <<"A">>
          /\ Truss.links[k].node2_Name = <<"B">>
          /\ Truss.links[k].length = Some([sqrtOf |-> 25])
          /\ Truss.links[k].angleRad[1].turn = "2pi-acos"

\* C9: after calcLinkVals every link with a node name that does not resolve has
\* no length and no angle, and calcLinkVals has raised nothing.
C9_DanglingLinkLeftUnset ==
    /\ Calculated =>
          \A k \in 1..Len(Truss.links) :
              (~Resolves(Truss, Truss.links[k].node1_Name)
               \/ ~Resolves(Truss, Truss.links[k].node2_Name))
              => (Truss.links[k].length = None /\ Truss.links[k].angleRad = None)
    /\ pc = "report" => err = None

C9_Witness ==
    /\ pc = "report"
    /\ \E j, k \in 1..Len(Truss.links) :
          /\ ~Resolves(Truss, Truss.links[k].node2_Name)
          /\ Truss.links[k].length = None
          /\ Truss.links[j].length # None

MaterialSet(m) ==
    /\ m.material.uts # None /\ m.material.ys # None
    /\ m.material.E # None /\ m.material.staticFactor # None

\* C10: displayReport on a model (with its material set) that holds a link
\* without length and angle does not raise.
C10_ReportToleratesUnsetLink ==
    (Reported /\ MaterialSet(Truss)
        /\ \E k \in 1..Len(Truss.links) : Truss.links[k].length = None)
    => ~(err # None /\ err[1].at = "displayReport")

\* displayReport of the latest call has run to its end
ReportCompleted == Reported /\ (err = None \/ err[1].at # "displayReport")
\* the links of m that have a length, and the earliest of the longest of them
WithLength(m) == {k \in 1..Len(m.links) : m.links[k].length # None}
EarliestLongest(m) ==
    MinOf({k \in WithLength(m) :
              \A j \in WithLength(m) :
                  m.links[j].length[1].sqrtOf <= m.links[k].length[1].sqrtOf})

\* C11: the longest link the report names is the link of greatest length among
\* the links that have a length, and of several links of that length the
\* earliest in the model's link list.
C11_LongestAmongLinksWithLength ==
    (Reported /\ MaterialSet(Truss) /\ WithLength(Truss) # {}) =>
        LET l == Truss.links[EarliestLongest(Truss)]
        IN  /\ err = None \/ err[1].at # "displayReport"
            /\ view.le_LongLinkName = l.name
            /\ view.le_LongLinkNode1 = l.node1_Name
            /\ view.le_LongLinkNode2 = l.node2_Name
            /\ view.le_LongLinkLength = <<fmt2(l.length[1])>>

\* C12: when no link of the model has a length (the model without links
\* included), the report runs to its end, raises nothing and names no longest
\* link.
C12_ReportWithoutLengths ==
    (Reported /\ MaterialSet(Truss) /\ WithLength(Truss) = {}) =>
        /\ err = None \/ err[1].at # "displayReport"
        /\ view.le_LongLinkName = <<>>

\* C13: a second run of calcLinkVals on a model it has already run on leaves
\* every link with the length and the angle it had.
C13_CalcLinkValsIdempotent ==
    Calculated =>
        LET again == calcLinkVals(Truss)
        IN  /\ Len(again.links) = Len(Truss.links)
            /\ \A k \in 1..Len(Truss.links) :
                  /\ again.links[k].length = Truss.links[k].length
                  /\ again.links[k].angleRad = Truss.links[k].angleRad

C13_Witness ==
    /\ pc = "report"
    /\ \E j, k \in 1..Len(Truss.links) :
          /\ Truss.links[j].length = Some([sqrtOf |-> 25])
          /\ Truss.links[k].length = None
          /\ calcLinkVals(Truss).links[j].length = Some([sqrtOf |-> 25])

\* (a + pi) mod 2 pi of an angle a of [0, 2 pi), by cos(a + pi) = -cos(a)
AddPiMod2Pi(a) ==
    LET c == [a.cos EXCEPT !.sgn = 0 - a.cos.sgn]
    IN  IF a.turn = "2pi-acos" \/ (a.cos.sgn # 0 /\ a.cos.p = a.cos.q)
        THEN Acos(c)
        ELSE TwoPiMinusAcos(c)

\* links j and k of m join the same two names in opposite directions
Opposite(m, j, k) ==
    /\ m.links[j].node1_Name = m.links[k].node2_Name
    /\ m.links[j].node2_Name = m.links[k].node1_Name
    /\ Resolves(m, m.links[j].node1_Name)
    /\ Resolves(m, m.links[j].node2_Name)
SamePlace(m, l) ==
    FirstNamed(m, l.node1_Name).position = FirstNamed(m, l.node2_Name).position

LiteralCase == FullHeader \o <<LnNodeA, LnNodeB, LnLinkAB>>

\* C15 as stated: for the input node A 0,0, node B 3,4, link L1 A B, the link
\* L1 has after the import the length 5 and the angle acos(3/5), of the branch
\* y >= 0.
C15_LiteralCaseUpperBranch ==
    (Calculated /\ data = LiteralCase) =>
        /\ Truss.links[1].length = Some([sqrtOf |-> 25])
        /\ Truss.links[1].angleRad = Some(Acos([sgn |-> 1, p |-> 9, q |-> 25]))

\* C15, amended: for that input the link L1 has after the import the length 5
\* and the angle 2 pi - acos(3/5), of the branch y < 0: B stands at (3, -4).
C15_LiteralCaseLowerBranch ==
    (Calculated /\ data = LiteralCase) =>
        /\ Len(Truss.links) = 1
        /\ Truss.links[1].name = <<"L", "1">>
        /\ FirstNamed(Truss, <<"B">>).position = [x |-> 3, y |-> 0 - 4, z |-> 0]
        /\ Truss.links[1].length = Some([sqrtOf |-> 25])
        /\ Truss.links[1].angleRad
              = Some(TwoPiMinusAcos([sgn |-> 1, p |-> 9, q |-> 25]))

C15_Witness ==
    /\ pc = "idle" /\ err = None /\ data = LiteralCase
    /\ Truss.links[1].length = Some([sqrtOf |-> 25])
    /\ Truss.links[1].angleRad[1].turn = "2pi-acos"
    /\ view.le_LongLinkName = <<"L", "1">>

\* the number of lines of the header block, the column heads being the last
HeaderLines == 8

\* C16: a report text that displayReport sets holds, after the header block,
\* one line for every link of the model and no other, in the order of the
\* model's link list, and the line of a link holds its name, its node1 name,
\* its node2 name, its length and its angle, in this order.
C16_ReportLinePerLink ==
    [][ (pc = "report" /\ view'.te_Report # view.te_Report) =>
            LET t == view'.te_Report
                links == models'[truss'].links
            IN  /\ Len(t) = HeaderLines + Len(links)
                /\ t[HeaderLines] = <<"Link\t(1)\t(2)\tLength\tAngle">>
                /\ \A k \in 1..Len(links) :
                      /\ Len(t[HeaderLines + k]) = 5
                      /\ t[HeaderLines + k][1] = links[k].name
                      /\ t[HeaderLines + k][2] = links[k].node1_Name
                      /\ t[HeaderLines + k][3] = links[k].node2_Name
                      /\ t[HeaderLines + k][4] = fmt2(links[k].length[1])
                      /\ t[HeaderLines + k][5] = fmt2(links[k].angleRad[1]) ]_vars

C16_Witness ==
    /\ pc = "draw"
    /\ Len(Truss.links) = 3
    /\ Len(view.te_Report) = HeaderLines + 3
    /\ view.te_Report[HeaderLines + 1]
          = << <<"L", "2">>, <<"B">>, <<"A">>, fmt2([sqrtOf |-> 25]),
               fmt2(Acos([sgn |-> 0 - 1, p |-> 9, q |-> 25])) >>
    /\ view.te_Report[HeaderLines + 2][1] = <<"L", "1">>
    /\ view.te_Report[HeaderLines + 2][2] = <<"F">>
    /\ view.te_Report[HeaderLines + 3][1] = <<"L", "1">>
    /\ view.te_Report[HeaderLines + 3][2] = <<"A">>

\* C17: displayReport only reads the model: the title, the material, the nodes
\* and every link's name, node names, length and angle are after it what they
\* were before it, whether it ends or raises.
C17_ReportReadsOnly ==
    [][ pc = "report" =>
            /\ truss' = truss
            /\ Len(models') = Len(models)
            /\ models'[truss].title = Truss.title
            /\ models'[truss].material = Truss.material
            /\ models'[truss].nodes = Truss.nodes
            /\ Len(models'[truss].links) = Len(Truss.links)
            /\ \A k \in 1..Len(Truss.links) :
                  /\ models'[truss].links[k].name = Truss.links[k].name
                  /\ models'[truss].links[k].node1_Name = Truss.links[k].node1_Name
                  /\ models'[truss].links[k].node2_Name = Truss.links[k].node2_Name
                  /\ models'[truss].links[k].length = Truss.links[k].length
                  /\ models'[truss].links[k].angleRad = Truss.links[k].angleRad ]_vars

C17_Witness ==
    /\ Reported
    /\ err # None /\ err[1].at = "displayReport"
    /\ Truss.title # None /\ MaterialSet(Truss)
    /\ Len(Truss.nodes) > 1
    /\ \E j, k \in 1..Len(Truss.links) :
          Truss.links[j].length # None /\ Truss.links[k].length = None

\* the line is empty once trimmed, or its first character that is no blank is #
IsBlankOrComment(rawLine) ==
    LET marks == {k \in 1..Len(rawLine) : rawLine[k] \notin Whitespace}
    IN  marks = {} \/ rawLine[MinOf(marks)] = "#"
\* the first field of the line: what stands before the first comma, trimmed
\* and in lower case
FirstField(rawLine) ==
    LET commas == {k \in 1..Len(rawLine) : rawLine[k] = ","}
    IN  lower(strip(IF commas = {} THEN rawLine
                    ELSE SubSeq(rawLine, 1, MinOf(commas) - 1), Whitespace))
Keywords == {KwTitle, KwMaterial, KwStaticFactor, KwNode, KwLink}
HasLine(rawLine) == \E k \in 1..Len(data) : data[k] = rawLine
\* the loop goes on to the next line with the model and the error as they were
LineSkipped ==
    /\ models' = models /\ truss' = truss
    /\ err' = None
    /\ i' = i + 1 /\ pc' \in {"parse", "calc"}

\* C18: the loop passes over a line that is empty once trimmed, or whose first
\* character that is no blank is #: no part of the model changes and nothing
\* is raised, whatever stands behind the #.
C18_BlankAndCommentSkipped ==
    [][ (pc = "parse" /\ IsBlankOrComment(data[i])) => LineSkipped ]_vars

C18_Witness ==
    /\ pc = "idle" /\ err = None
    /\ HasLine(LnCommentedNode) /\ HasLine(LnNewline) /\ HasLine(LnCommentBare)
    /\ HasLine(LnBlank)
    /\ Len(Truss.nodes) = 2 /\ Len(Truss.links) = 1
    /\ Truss.links[1].length = Some([sqrtOf |-> 25])

\* C19: the loop passes over a line that is no comment and whose first field,
\* trimmed and in lower case, is none of title, material, static_factor, node,
\* link: the model does not change and nothing is raised, however many fields
\* the line has.
C19_UnknownKeywordIgnored ==
    [][ (pc = "parse" /\ ~IsBlankOrComment(data[i])
                      /\ FirstField(data[i]) \notin Keywords) => LineSkipped ]_vars

C19_Witness ==
    /\ pc = "idle" /\ err = None
    /\ HasLine(LnUnknown) /\ HasLine(LnUnknownBare)
    /\ Truss.title # None /\ MaterialSet(Truss)
    /\ Len(Truss.nodes) = 2 /\ Len(Truss.links) = 1

\* C20: every link record is appended: the link list holds one link for every
\* link record the loop has dealt with, in the order of the input, with the
\* name and the node names of the record, also when a record repeats the name
\* or the two nodes of an earlier link.
C20_LinkPerLinkRecord ==
    LET recs == RecordsDone
        links == Of(recs, KwLink)
    IN  /\ Len(Truss.links) = Cardinality(links)
        /\ \A k \in links :
              LET l == Truss.links[Cardinality({j \in links : j <= k})]
              IN  /\ l.name = recs[k].cells[1]
                  /\ l.node1_Name = recs[k].cells[2]
                  /\ l.node2_Name = recs[k].cells[3]

C20_Witness ==
    /\ Parsed
    /\ Len(Truss.links) = 4
    /\ Truss.links[1].name = <<"L", "1">> /\ Truss.links[1].node1_Name = <<"A">>
    /\ Truss.links[2] = Truss.links[1]
    /\ Truss.links[3].name = <<"L", "1">> /\ Truss.links[3].node1_Name = <<"F">>
    /\ Truss.links[4].name = <<"L", "2">>

\* the node records among recs that give the name n
NodeRecords(recs, n) == {k \in Of(recs, KwNode) : recs[k].cells[1] = n}
\* the link of m made from the link record at line j of recs
LinkOfRecord(m, recs, j) == m.links[Cardinality({k \in Of(recs, KwLink) : k <= j})]

\* C21 as stated: a link has a length and an angle only if node records of both
\* its names stand before its record in the input; a link record that stands
\* before them is left without length and angle.
C21_ResolvesOnlyAfterItsNodes ==
    Calculated =>
        LET recs == RecordsDone
        IN  \A j \in Of(recs, KwLink) :
                LET l == LinkOfRecord(Truss, recs, j)
                IN  (l.length # None \/ l.angleRad # None) =>
                        /\ \E k \in NodeRecords(recs, recs[j].cells[2]) : k < j
                        /\ \E k \in NodeRecords(recs, recs[j].cells[3]) : k < j

\* C21, amended: a link has a length and an angle exactly if the input holds
\* node records of both its names, before or after the link record:
\* calcLinkVals runs once, after the last line is parsed.
C21_ResolvesWhereverItsNodesStand ==
    Calculated =>
        LET recs == RecordsDone
        IN  \A j \in Of(recs, KwLink) :
                LET l == LinkOfRecord(Truss, recs, j)
                    both == /\ NodeRecords(recs, recs[j].cells[2]) # {}
                            /\ NodeRecords(recs, recs[j].cells[3]) # {}
                IN  /\ (l.length # None) = both
                    /\ (l.angleRad # None) = both

C21_Witness ==
    /\ Calculated
    /\ LET recs == RecordsDone
       IN  \E j \in Of(recs, KwLink) :
              /\ \A k \in NodeRecords(recs, recs[j].cells[2]) : k > j
              /\ \A k \in NodeRecords(recs, recs[j].cells[3]) : k > j
              /\ LinkOfRecord(Truss, recs, j).length = Some([sqrtOf |-> 25])
              /\ LinkOfRecord(Truss, recs, j).angleRad # None

\* the step parses a record of keyword kw
ParsesRecord(kw) ==
    pc = "parse" /\ ~IsBlankOrComment(data[i]) /\ FirstField(data[i]) = kw

\* C22: a material record puts a new material in the place of the old one: the
\* step that parses it leaves the static factor unset, whatever static_factor
\* records came before, with uts, ys and E those of the record; and a static
\* factor that is unset becomes set only by the step that parses a
\* static_factor record.
C22_MaterialRecordUnsetsStaticFactor ==
    [][ LET material == models'[truss'].material
        IN  /\ ParsesRecord(KwMaterial) =>
                  /\ material.staticFactor = None
                  /\ material.uts = Some(float(Cells(data[i])[1]))
                  /\ material.ys = Some(float(Cells(data[i])[2]))
                  /\ material.E = Some(float(Cells(data[i])[3]))
            /\ (Truss.material.staticFactor = None /\ material.staticFactor # None)
                  => /\ ParsesRecord(KwStaticFactor)
                     /\ material.staticFactor = Some(float(Cells(data[i])[1])) ]_vars

C22_Witness ==
    /\ pc = "idle" /\ err # None /\ err[1].at = "displayReport"
    /\ data[1] = LnStaticFactor /\ data[2] = LnMaterialB
    /\ data[3] = LnStaticFactorB /\ data[4] = LnMaterial
    /\ Truss.material = Material(Some(9), Some(5), Some(7))

\* the cosine is 1 or -1
IsOne(c) == c.sgn = 1 /\ c.p = c.q
IsMinusOne(c) == c.sgn = 0 - 1 /\ c.p = c.q
\* where the angle a lies: acos(c) is in [0, pi], and 2 pi - acos(c) is in
\* [pi, 2 pi], at pi for c = -1 and at 2 pi for c = 1
InZeroToPi(a) == a.turn = "acos"
StrictlyBetweenPiAndTwoPi(a) ==
    a.turn = "2pi-acos" /\ ~IsOne(a.cos) /\ ~IsMinusOne(a.cos)
BelowTwoPi(a) == a.turn = "acos" \/ ~IsOne(a.cos)
\* the vector of link l of m, whose names resolve
VectorOf(m, l) ==
    PositionSub(FirstNamed(m, l.node2_Name).position,
                FirstNamed(m, l.node1_Name).position)

\* C23: the angle of every link is in [0, 2 pi): 0 when the vector between its
\* nodes has no length (and the link's length is then 0), in [0, pi] when the
\* vector's y >= 0, and strictly between pi and 2 pi when its y < 0.
C23_AngleInRange ==
    Calculated =>
        \A k \in 1..Len(Truss.links) :
            LET l == Truss.links[k] IN
            l.angleRad # None =>
                LET r == VectorOf(Truss, l)
                    a == l.angleRad[1]
                IN  /\ BelowTwoPi(a)
                    /\ (r.x = 0 /\ r.y = 0) =>
                          (a = Zero /\ l.length = Some([sqrtOf |-> 0]))
                    /\ r.y >= 0 => InZeroToPi(a)
                    /\ r.y < 0 => StrictlyBetweenPiAndTwoPi(a)

\* the link objects of all models constructed so far
AllLinks ==
    UNION {{models[m].links[k] : k \in 1..Len(models[m].links)} : m \in 1..Len(models)}
\* the number of the four values node1 name, node2 name, length, angle in which
\* links a and b differ
Differences(a, b) ==
    (IF a.node1_Name # b.node1_Name THEN 1 ELSE 0)
    + (IF a.node2_Name # b.node2_Name THEN 1 ELSE 0)
    + (IF a.length # b.length THEN 1 ELSE 0)
    + (IF a.angleRad # b.angleRad THEN 1 ELSE 0)

\* C24: two links are equal exactly if they agree in node1 name, node2 name,
\* length and angle: links that agree in the four are equal also when their
\* names differ, and links that differ in one of the four are not equal.
C24_LinkEqualityIgnoresName ==
    \A a, b \in AllLinks : Link_eq(a, b) = (Differences(a, b) = 0)

C24_Witness ==
    /\ \E a, b \in AllLinks :
          a.name # b.name /\ a.length # None /\ Link_eq(a, b)
    /\ \E a, b \in AllLinks :
          /\ a.name = b.name /\ Differences(a, b) = 1
          /\ a.length = b.length /\ a.length # None /\ a.angleRad # b.angleRad
          /\ ~Link_eq(a, b)
    /\ \E a, b \in AllLinks :
          a.name = b.name /\ Differences(a, b) = 1 /\ a.node1_Name # b.node1_Name

\* C25: buildScene only reads the model: the names and positions of the nodes,
\* the links with their lengths and angles, the title and the material are
\* after it what they were before it, whether it ends or raises.
C25_DrawingReadsOnly ==
    [][ pc = "draw" =>
            /\ truss' = truss
            /\ Len(models') = Len(models)
            /\ models'[truss].title = Truss.title
            /\ models'[truss].material = Truss.material
            /\ Len(models'[truss].nodes) = Len(Truss.nodes)
            /\ \A k \in 1..Len(Truss.nodes) :
                  /\ models'[truss].nodes[k].name = Truss.nodes[k].name
                  /\ models'[truss].nodes[k].position = Truss.nodes[k].position
            /\ models'[truss].links = Truss.links ]_vars

C25_Witness ==
    /\ pc = "idle" /\ Reported /\ err = None
    /\ Len(view.scene) > 6
    /\ Len(Truss.links) > 2
    /\ \E k \in 1..Len(Truss.nodes) : Truss.nodes[k].position.y # 0

\* C26: in every state a link has a length exactly if it has an angle, and
\* every link is without both from its construction until calcLinkVals has
\* run over the links.
C26_LengthAndAngleTogether ==
    \A k \in 1..Len(Truss.links) :
        /\ (Truss.links[k].length = None) = (Truss.links[k].angleRad = None)
        /\ ~Calculated => Truss.links[k].length = None

C26_Witness ==
    /\ pc = "report"
    /\ \E j, k \in 1..Len(Truss.links) :
          /\ Truss.links[j].length # None /\ Truss.links[j].angleRad # None
          /\ Truss.links[k].length = None /\ Truss.links[k].angleRad = None

\* calcLinkVals has run over the model: no link that resolves lacks a length
GeometryComputed(m) ==
    \A k \in 1..Len(m.links) :
        (Resolves(m, m.links[k].node1_Name) /\ Resolves(m, m.links[k].node2_Name))
        => m.links[k].length # None

\* C27: a call of ImportFromFile parses all lines, then runs calcLinkVals,
\* then displayReport, then drawTruss.  The report is made only of a model
\* whose geometry is computed; a step that raises ends the call, and what the
\* later steps would set is left as it was: a failed parse leaves the view, a
\* failed report leaves the scene.
C27_StepsInOrder ==
    [][ /\ pc = "idle" => (pc' \in {"parse", "calc"} /\ view' = view)
        /\ pc = "parse" =>
              /\ pc' \in {"parse", "calc", "idle"}
              /\ view' = view
              /\ pc' = "calc" => (err' = None /\ i' = Len(data) + 1)
              /\ pc' = "idle" => err' # None
        /\ pc = "calc" => (pc' = "report" /\ view' = view /\ i = Len(data) + 1)
        /\ pc = "report" =>
              /\ GeometryComputed(Truss)
              /\ pc' \in {"draw", "idle"}
              /\ pc' = "draw" => err' = None
              /\ pc' = "idle" => (err' # None /\ view'.scene = view.scene)
        /\ pc = "draw" => pc' = "idle"
        /\ view'.te_Report # view.te_Report => pc = "report"
        /\ view'.scene # view.scene => pc = "draw" ]_vars

C27_Witness ==
    /\ imports = 2 /\ ParseFailed
    /\ Len(Truss.nodes) > 0
    /\ Len(view.te_Report) > HeaderLines
    /\ Len(view.scene) > 1

====
